---- MODULE Spec2Model ----
(***************************************************************************)
(* MouseEye timelapse server (src/app.py): the camera arbiter and job      *)
(* orchestrator.  The model follows the module's globals and threads:      *)
(*   - the action processor draining _action_q (the capture controller),   *)
(*   - stop_timelapse as run by the processor, by POST /stop and by the    *)
(*     duration timer,                                                     *)
(*   - the capture thread and its camera process,                          *)
(*   - the scheduler thread, the schedule table and its file,              *)
(*   - the encode queue, its worker and the job table,                     *)
(*   - the live-view process and the one-shot still routes.                *)
(* Time is a discrete clock `now`; one unit stands for one minute, the     *)
(* granularity of schedule windows and of duration timers.                 *)
(***************************************************************************)
EXTENDS Integers, Sequences, FiniteSets, TLC

\* ------------------------------------------------------------------ bounds
MaxTime == 3
\* capture Thread objects that may be alive or referenced at once
MaxThreads == 2
\* intents waiting in _action_q
MaxQueue == 2
\* tasks waiting in _encode_q
MaxEncQueue == 2
\* schedules ever armed (ids are never reused, as uuid4 ids are not)
MaxScheds == 2
\* jpg files per session directory
MaxFrames == 2
\* POST /encode requests handled at once (Flask runs threaded=True)
NumEncHandlers == 2
\* restarts of the process
MaxBoots == 1

\* ------------------------------------------------------- program constants
CAPTURE_INTERVAL_SEC == 10
DEFAULT_FPS == 24
\* sched.get('interval', 10) / payload.get('interval', 10)
DefaultInterval == 10

\* ------------------------------------------------------------------- names
\* A name is a sequence of one-character strings.
NoName == <<>>
SessA == <<"a">>
SessB == <<"b">>
SafeChars == {"a", "b", "s", "0", "1", "2", "3", "4", "5", "6", "7", "8", "9", "-", "_"}
IsSafeChar(c) == c \in SafeChars

\* _safe_name: keep alphanumerics, '-' and '_'
SafeName(s) == SelectSeq(s, IsSafeChar)

Digit == <<"0", "1", "2", "3", "4", "5", "6", "7", "8", "9">>
\* _timestamped_session: "session-" + strftime(now)
TimestampedSession(t) == <<"s", "-", Digit[(t % 10) + 1]>>

VARIABLES
    now,                 \* time.time(), in clock units
    capture_thread,      \* _capture_thread: 0 (None) or a thread slot
    current_session,     \* _current_session: NoName (None) or a name
    active_schedule_id,  \* _active_schedule_id: 0 (None) or a schedule id
    capture_stop_timer,  \* _capture_stop_timer: 0 (None) or the Timer's deadline
    capture_end_ts,      \* _capture_end_ts: 0 (None) or a time
    stop_set,            \* whether the Event bound to _stop_event is set
    threads,             \* the capture Thread objects and their camera processes
    timers,              \* deadlines of the threading.Timer objects still pending
    action_q,            \* _action_q
    proc,                \* the action processor thread: position and locals
    stoppers,            \* stop_timelapse as run by POST /stop and by a Timer thread
    schedules,           \* _schedules, in dict (insertion) order
    next_sid,            \* schedule ids handed out so far
    sched_lock,          \* holder of _sched_lock: "none" or a route name
    sched_file,          \* content of SCHED_FILE
    tmp_file,            \* content of SCHED_FILE + ".tmp"
    jobs,                \* _jobs
    encode_q,            \* _encode_q
    unfinished_tasks,    \* _encode_q.unfinished_tasks
    worker,              \* the encode worker thread: position and locals
    enc_handlers,        \* POST /encode requests in progress
    frames,              \* session directories: name -> number of jpg files
    free_ok,             \* whether _enough_space(300) holds
    live_proc,           \* LIVE_PROC: "none", "running" or "exited"
    last_live_spawn,     \* _last_live_spawn
    live_handler,        \* GET /live.mjpg in progress: "idle" or "checked"
    stills,              \* one-shot camera invocations running, by route
    boots,               \* how often the process has been started again
    lcd                  \* lcd_hat.py, _delete_schedule_backend: position and id

capVars == <<capture_thread, current_session, active_schedule_id,
             capture_stop_timer, capture_end_ts, stop_set, threads, timers>>
procVars == <<action_q, proc>>
schedVars == <<schedules, next_sid, sched_lock, sched_file, tmp_file>>
encVars == <<jobs, encode_q, unfinished_tasks, worker, enc_handlers>>
liveVars == <<live_proc, last_live_spawn, live_handler, stills>>
diskVars == <<frames, free_ok, boots, lcd>>
vars == <<now, capVars, procVars, stoppers, schedVars, encVars, diskVars, liveVars>>

\* ------------------------------------------------------------ capture thread
ThreadIds == 1..MaxThreads
FreeThread == [pc |-> "free", cam |-> FALSE, cur |-> FALSE, sig |-> FALSE,
               sess |-> NoName, interval |-> 0]
DeadThread == [pc |-> "dead", cam |-> FALSE, cur |-> FALSE, sig |-> FALSE,
               sess |-> NoName, interval |-> 0]

\* Thread.is_alive()
IsAlive(t) == t # 0 /\ threads[t].pc \notin {"free", "dead"}
AliveThreads == {t \in ThreadIds : IsAlive(t)}
\* camera processes of capture loops
CaptureProcs == {t \in ThreadIds : threads[t].cam}

\* _any_encoding_active
AnyEncodingActive ==
    \E s \in DOMAIN jobs : jobs[s].status \in {"queued", "encoding"}

\* an idle test that looks at the capture thread only
IdleIgnoringEncode == ~IsAlive(capture_thread)
\* _idle_now
IdleNow == ~IsAlive(capture_thread) /\ ~AnyEncodingActive

\* _stop_event.set(): every thread waiting on the current Event is woken
EventSet(th) == [t \in ThreadIds |->
                    IF th[t].pc = "wait" /\ th[t].cur THEN [th[t] EXCEPT !.sig = TRUE]
                    ELSE th[t]]
\* _stop_event.clear()
EventClear(th) == [t \in ThreadIds |->
                    IF th[t].pc = "wait" /\ th[t].cur THEN [th[t] EXCEPT !.sig = FALSE]
                    ELSE th[t]]
\* _stop_event = threading.Event(): waiters keep the Event they were given
EventReplace(th) == [t \in ThreadIds |-> [th[t] EXCEPT !.cur = FALSE]]

\* A finished Thread object nobody refers to any more is garbage: its slot is free.
\* `ct` is the value of _capture_thread and `refs` the threads being joined.
Collect(th, ct, refs) ==
    [t \in ThreadIds |->
        IF th[t].pc = "dead" /\ t # ct /\ t \notin refs THEN FreeThread ELSE th[t]]

OtherVarsCapture == <<now, procVars, stoppers, schedVars, encVars, free_ok, boots, lcd,
                      liveVars>>

\* _capture_loop, subprocess.Popen(cmd): the camera process starts
CaptureSpawn(t) ==
    /\ threads[t].pc = "spawn"
    /\ threads' = [threads EXCEPT ![t].pc = "wait", ![t].cam = TRUE,
                                  ![t].cur = TRUE, ![t].sig = stop_set]
    /\ UNCHANGED <<capture_thread, current_session, active_schedule_id,
                   capture_stop_timer, capture_end_ts, stop_set, timers>>
    /\ UNCHANGED <<OtherVarsCapture, frames>>

\* _stop_event.wait(timeout=1.0) returns False; the loop goes on to proc.poll()
CaptureWaitTimeout(t) ==
    /\ threads[t].pc = "wait"
    /\ ~threads[t].sig
    /\ threads' = [threads EXCEPT ![t].pc = "poll", ![t].cur = FALSE]
    /\ UNCHANGED <<capture_thread, current_session, active_schedule_id,
                   capture_stop_timer, capture_end_ts, stop_set, timers>>
    /\ UNCHANGED <<OtherVarsCapture, frames>>

\* proc.poll() is None: back to _stop_event.wait on the Event now bound to the global
CapturePollRunning(t) ==
    /\ threads[t].pc = "poll"
    /\ threads[t].cam
    /\ threads' = [threads EXCEPT ![t].pc = "wait", ![t].cur = TRUE, ![t].sig = stop_set]
    /\ UNCHANGED <<capture_thread, current_session, active_schedule_id,
                   capture_stop_timer, capture_end_ts, stop_set, timers>>
    /\ UNCHANGED <<OtherVarsCapture, frames>>

\* the loop ends (wait returned True, or poll saw the process gone); the finally
\* block terminates the camera process and the thread finishes
CaptureFinish(t) ==
    /\ \/ threads[t].pc = "wait" /\ threads[t].sig
       \/ threads[t].pc = "poll" /\ ~threads[t].cam
    /\ threads' = Collect([threads EXCEPT ![t] = DeadThread], capture_thread,
                           {stoppers[k].target : k \in DOMAIN stoppers} \cup {proc.target})
    /\ UNCHANGED <<capture_thread, current_session, active_schedule_id,
                   capture_stop_timer, capture_end_ts, stop_set, timers>>
    /\ UNCHANGED <<OtherVarsCapture, frames>>

\* the camera program exits on its own (camera busy, error, 24 h run time over)
CameraExit(t) ==
    /\ threads[t].cam
    /\ threads' = [threads EXCEPT ![t].cam = FALSE]
    /\ UNCHANGED <<capture_thread, current_session, active_schedule_id,
                   capture_stop_timer, capture_end_ts, stop_set, timers>>
    /\ UNCHANGED <<OtherVarsCapture, frames>>

\* the camera program, in --timelapse mode, writes the next frame file
CameraFrame(t) ==
    /\ threads[t].cam
    /\ threads[t].sess \in DOMAIN frames
    /\ frames[threads[t].sess] < MaxFrames
    /\ frames' = [frames EXCEPT ![threads[t].sess] = @ + 1]
    /\ UNCHANGED <<capVars, OtherVarsCapture>>

\* ------------------------------------------------------------ stop_timelapse
\* lines 835-843: _stop_event.set(), then cancel and forget the auto-stop timer;
\* `pending` is the set of Timer objects that have not fired yet
StopSignalEffect(pending) ==
    /\ stop_set' = TRUE
    /\ threads' = EventSet(threads)
    /\ timers' = pending \ {capture_stop_timer}
    /\ capture_stop_timer' = 0
    /\ UNCHANGED <<capture_thread, current_session, active_schedule_id, capture_end_ts>>

\* lines 850-854: reset state and bind a fresh Event to _stop_event
StopResetEffect ==
    /\ capture_thread' = 0
    /\ current_session' = NoName
    /\ capture_end_ts' = 0
    /\ stop_set' = FALSE
    /\ threads' = Collect(EventReplace(threads), 0,
                           {stoppers[k].target : k \in DOMAIN stoppers} \cup {proc.target})
    /\ UNCHANGED <<capture_stop_timer, timers>>

\* line 847, join(timeout=5.0) gives up: a thread that was signalled ends well
\* within the five seconds; one that was not signalled keeps running past them
JoinTimesOut(t) ==
    /\ IsAlive(t)
    /\ ~stop_set
    /\ ~threads[t].sig
    /\ threads[t].cam \/ threads[t].pc = "spawn"

StopperIds == {"http", "timer"}
IdleStopper == [pc |-> "idle", target |-> 0]

OtherVarsStopper == <<now, procVars, schedVars, encVars, diskVars, liveVars>>

\* POST /stop: stop_route calls stop_timelapse in the request's thread
StopRoute ==
    /\ stoppers["http"].pc = "idle"
    /\ StopSignalEffect(timers)
    /\ stoppers' = [stoppers EXCEPT !["http"].pc = "check"]
    /\ UNCHANGED OtherVarsStopper

\* the Timer armed by a start with a duration fires: stop_timelapse runs in the
\* Timer's thread
TimerFire(d) ==
    /\ d \in timers
    /\ d <= now
    /\ stoppers["timer"].pc = "idle"
    /\ StopSignalEffect(timers \ {d})
    /\ stoppers' = [stoppers EXCEPT !["timer"].pc = "check"]
    /\ UNCHANGED OtherVarsStopper

\* line 846: if _capture_thread and _capture_thread.is_alive()
StopperCheck(k) ==
    /\ stoppers[k].pc = "check"
    /\ stoppers' = [stoppers EXCEPT ![k] =
                       IF IsAlive(capture_thread)
                       THEN [pc |-> "join", target |-> capture_thread]
                       ELSE [pc |-> "reset", target |-> 0]]
    /\ UNCHANGED <<capVars, OtherVarsStopper>>

\* line 847: _capture_thread.join(timeout=5.0) returns
StopperJoin(k) ==
    /\ stoppers[k].pc = "join"
    /\ ~IsAlive(stoppers[k].target) \/ JoinTimesOut(stoppers[k].target)
    /\ stoppers' = [stoppers EXCEPT ![k] = [pc |-> "reset", target |-> 0]]
    /\ UNCHANGED <<capVars, OtherVarsStopper>>

StopperReset(k) ==
    /\ stoppers[k].pc = "reset"
    /\ StopResetEffect
    /\ UNCHANGED active_schedule_id
    /\ stoppers' = [stoppers EXCEPT ![k] = IdleStopper]
    /\ UNCHANGED OtherVarsStopper

\* ------------------------------------------------------------------ intents
StartManual(interval, name, dur) ==
    [action |-> "start", sched |-> 0, interval |-> interval, name |-> name,
     duration_min |-> dur]
StartSched(sid) ==
    [action |-> "start", sched |-> sid, interval |-> 0, name |-> NoName,
     duration_min |-> 0]
StopIntent ==
    [action |-> "stop", sched |-> 0, interval |-> 0, name |-> NoName,
     duration_min |-> 0]

\* values of the /start form
FormIntervals == {CAPTURE_INTERVAL_SEC}

\* POST /start: puts a start intent on the queue when idle
StartRoute(interval, name, dur) ==
    /\ IdleNow
    /\ Len(action_q) < MaxQueue
    /\ action_q' = Append(action_q, StartManual(interval, SafeName(name), dur))
    /\ UNCHANGED <<now, capVars, proc, stoppers, schedVars, encVars, diskVars, liveVars>>

\* ---------------------------------------------------------------- schedules
NoSched == [id |-> 0, start_ts |-> 0, end_ts |-> 0, interval |-> 0, fps |-> 0,
            sess |-> NoName, auto_encode |-> FALSE, has_id |-> FALSE]

\* _schedules.get(sid): the record, or NoSched for None
SchedGet(table, sid) ==
    IF \E i \in 1..Len(table) : table[i].id = sid
    THEN table[CHOOSE i \in 1..Len(table) : table[i].id = sid]
    ELSE NoSched

\* _schedules.pop(sid, None)
SchedPop(table, sid) == SelectSeq(table, LAMBDA r : r.id # sid)

\* ---------------------------------------------------------- action processor
IdleProc == [pc |-> "get", intent |-> StopIntent, interval |-> 0, sess_name |-> NoName,
             sess_dir |-> NoName, session_to_stop |-> NoName, sched_stopped |-> NoSched,
             target |-> 0]

OtherVarsProc == <<now, stoppers, schedVars, free_ok, boots, lcd>>

\* a processor that takes the intent put last
ActionGetNewest(q) == q[Len(q)]

\* line 503, _action_q.get(): the intent that has waited longest
ActionGet(q) == Head(q)

\* a processor that calls _stop_live_proc() before it looks at _idle_now()
ProcDropStartAfterTeardown ==
    /\ proc.pc = "get"
    /\ action_q # <<>>
    /\ ActionGet(action_q).action = "start"
    /\ ~IdleNow
    /\ action_q' = Tail(action_q)
    /\ live_proc' = "none"
    /\ UNCHANGED <<proc, capVars, OtherVarsProc, encVars, frames,
                   last_live_spawn, live_handler, stills>>

\* lines 503-508: a start intent drained while not idle is dropped
ProcDropStart ==
    /\ proc.pc = "get"
    /\ action_q # <<>>
    /\ ActionGet(action_q).action = "start"
    /\ ~IdleNow
    /\ action_q' = Tail(action_q)
    /\ UNCHANGED <<proc, capVars, OtherVarsProc, encVars, frames, liveVars>>

\* line 511 and lines 819-827: _stop_live_proc()
StopLiveProc == live_proc' = "none"

\* lines 503-517: a start intent fired by the scheduler is drained while idle; the
\* live-view process is stopped and the schedule table is read again
ProcGetStartSched ==
    /\ proc.pc = "get"
    /\ action_q # <<>>
    /\ ActionGet(action_q).action = "start"
    /\ ActionGet(action_q).sched # 0
    /\ IdleNow
    /\ action_q' = Tail(action_q)
    /\ StopLiveProc
    /\ LET sched == SchedGet(schedules, ActionGet(action_q).sched) IN
       proc' = [proc EXCEPT !.pc = "start_session",
                            !.intent = ActionGet(action_q),
                            !.interval = IF sched = NoSched THEN DefaultInterval
                                         ELSE sched.interval,
                            !.sess_name = sched.sess]
    /\ active_schedule_id' = ActionGet(action_q).sched
    /\ UNCHANGED <<capture_thread, current_session, capture_stop_timer, capture_end_ts,
                   stop_set, threads, timers>>
    /\ UNCHANGED <<OtherVarsProc, encVars, frames, last_live_spawn, live_handler, stills>>

\* lines 503-511 and 519-526: a manual start intent is drained while idle; the
\* live-view process is stopped and a duration arms the auto-stop Timer
ProcGetStartManual ==
    /\ proc.pc = "get"
    /\ action_q # <<>>
    /\ ActionGet(action_q).action = "start"
    /\ ActionGet(action_q).sched = 0
    /\ IdleNow
    /\ action_q' = Tail(action_q)
    /\ StopLiveProc
    /\ proc' = [proc EXCEPT !.pc = "start_session",
                            !.intent = ActionGet(action_q),
                            !.interval = ActionGet(action_q).interval,
                            !.sess_name = ActionGet(action_q).name]
    /\ active_schedule_id' = 0
    /\ IF ActionGet(action_q).duration_min > 0
       THEN /\ capture_end_ts' = now + ActionGet(action_q).duration_min
            /\ capture_stop_timer' = now + ActionGet(action_q).duration_min
            /\ timers' = timers \cup {now + ActionGet(action_q).duration_min}
       ELSE UNCHANGED <<capture_end_ts, capture_stop_timer, timers>>
    /\ UNCHANGED <<capture_thread, current_session, stop_set, threads>>
    /\ UNCHANGED <<OtherVarsProc, encVars, frames, last_live_spawn, live_handler, stills>>

\* lines 528-532: name the session, clear the stop Event, make the directory
NewSessionName(sess_name, t) ==
    SafeName(IF sess_name # NoName THEN sess_name ELSE TimestampedSession(t))

ProcStartSession ==
    /\ proc.pc = "start_session"
    /\ LET name == NewSessionName(proc.sess_name, now) IN
       /\ current_session' = name
       /\ proc' = [proc EXCEPT !.pc = "start_launch", !.sess_dir = name]
       /\ frames' = IF name \in DOMAIN frames THEN frames ELSE (name :> 0) @@ frames
    /\ stop_set' = FALSE
    /\ threads' = EventClear(threads)
    /\ UNCHANGED <<capture_thread, active_schedule_id, capture_stop_timer,
                   capture_end_ts, timers>>
    /\ UNCHANGED <<action_q, OtherVarsProc, encVars, liveVars>>

\* line 532: os.makedirs raises OSError (no space left on the volume); line 528
\* and 529 have run, nothing in the loop catches the exception, and the
\* processor thread ends
ProcStartSessionFails ==
    /\ proc.pc = "start_session"
    /\ ~free_ok
    /\ current_session' = NewSessionName(proc.sess_name, now)
    /\ proc' = [proc EXCEPT !.pc = "dead"]
    /\ stop_set' = FALSE
    /\ threads' = EventClear(threads)
    /\ UNCHANGED <<capture_thread, active_schedule_id, capture_stop_timer,
                   capture_end_ts, timers>>
    /\ UNCHANGED <<action_q, OtherVarsProc, encVars, frames, liveVars>>

\* thread slots a new Thread object may take
FreeSlots ==
    {t \in ThreadIds :
        /\ threads[t].pc \in {"free", "dead"}
        /\ \A k \in DOMAIN stoppers : stoppers[k].target # t
        /\ proc.target # t}

\* lines 533-534: _capture_thread = Thread(...); _capture_thread.start()
LaunchCapture(t) ==
    /\ capture_thread' = t
    /\ threads' = Collect([threads EXCEPT ![t] =
                              [pc |-> "spawn", cam |-> FALSE, cur |-> FALSE, sig |-> FALSE,
                               sess |-> proc.sess_dir, interval |-> proc.interval]],
                          t, {stoppers[k].target : k \in DOMAIN stoppers} \cup {proc.target})

ProcStartLaunch ==
    /\ proc.pc = "start_launch"
    /\ FreeSlots # {}
    /\ LaunchCapture(CHOOSE t \in FreeSlots : \A u \in FreeSlots : t <= u)
    /\ proc' = IdleProc
    /\ UNCHANGED <<current_session, active_schedule_id, capture_stop_timer,
                   capture_end_ts, stop_set, timers>>
    /\ UNCHANGED <<action_q, OtherVarsProc, encVars, frames, liveVars>>

\* lines 536-540: a stop intent; remember the session and the schedule it ran
\* under, then stop_timelapse() in the processor thread, up to line 843
ProcGetStop ==
    /\ proc.pc = "get"
    /\ action_q # <<>>
    /\ ActionGet(action_q).action = "stop"
    /\ action_q' = Tail(action_q)
    /\ proc' = [proc EXCEPT !.pc = "stop_check",
                            !.intent = ActionGet(action_q),
                            !.session_to_stop = current_session,
                            !.sched_stopped = SchedGet(schedules, active_schedule_id)]
    /\ StopSignalEffect(timers)
    /\ UNCHANGED <<OtherVarsProc, encVars, frames, liveVars>>

ProcStopCheck ==
    /\ proc.pc = "stop_check"
    /\ proc' = IF IsAlive(capture_thread)
               THEN [proc EXCEPT !.pc = "stop_join", !.target = capture_thread]
               ELSE [proc EXCEPT !.pc = "stop_reset"]
    /\ UNCHANGED <<action_q, capVars, OtherVarsProc, encVars, frames, liveVars>>

ProcStopJoin ==
    /\ proc.pc = "stop_join"
    /\ ~IsAlive(proc.target) \/ JoinTimesOut(proc.target)
    /\ proc' = [proc EXCEPT !.pc = "stop_reset", !.target = 0]
    /\ UNCHANGED <<action_q, capVars, OtherVarsProc, encVars, frames, liveVars>>

\* lines 543: auto-encode is wanted
\* a processor that encodes after every stop of a session
EncodeAfterEveryStop(p) == p.session_to_stop # NoName

\* line 543: if schedule_that_stopped and auto_encode and session_to_stop
WantsAutoEncode(p) ==
    p.sched_stopped # NoSched /\ p.sched_stopped.auto_encode /\ p.session_to_stop # NoName

\* end of stop_timelapse, then line 541: _active_schedule_id = None
ProcStopReset ==
    /\ proc.pc = "stop_reset"
    /\ StopResetEffect
    /\ active_schedule_id' = 0
    /\ proc' = IF WantsAutoEncode(proc) THEN [proc EXCEPT !.pc = "stop_encode"]
               ELSE IdleProc
    /\ UNCHANGED <<action_q, OtherVarsProc, encVars, frames, liveVars>>

\* lines 544-547: _encode_q.put((session_to_stop, fps))
ProcStopEncode ==
    /\ proc.pc = "stop_encode"
    /\ Len(encode_q) < MaxEncQueue
    /\ encode_q' = Append(encode_q, [sess |-> proc.session_to_stop,
                                     fps |-> proc.sched_stopped.fps])
    /\ unfinished_tasks' = unfinished_tasks + 1
    /\ proc' = IdleProc
    /\ UNCHANGED <<action_q, capVars, OtherVarsProc, jobs, worker, enc_handlers,
                   frames, liveVars>>

\* ------------------------------------------------- schedule table and its file
MissingFile == [kind |-> "missing", data |-> <<>>]
\* a file opened with "w" whose json.dump has not completed
PartialFile == [kind |-> "partial", data |-> <<>>]

\* a save that writes back what the file already holds
DumpStale(table) == sched_file

\* json.dump(_schedules, f)
Dump(table) == [kind |-> "json", data |-> table]

\* a file that holds valid JSON which is not an object (a list)
ArrayFile(data) == [kind |-> "array", data |-> data]

\* a load without the isinstance(data, dict) check of line 445
LoadAnyJson(file, table) == IF file.kind \in {"json", "array"} THEN file.data ELSE table

\* _load_sched_state: the table read, or `table` left as it is when the file is
\* missing or does not hold a JSON object
LoadSchedState(file, table) == IF file.kind = "json" THEN file.data ELSE table

\* a save that writes SCHED_FILE itself
SaveTargetInPlace == "file"
\* line 433: the path _save_sched_state writes to, tmp = SCHED_FILE + ".tmp"
SaveTarget == "tmp"

WriteFile(path, content) ==
    IF path = "tmp" THEN tmp_file' = content /\ UNCHANGED sched_file
    ELSE sched_file' = content /\ UNCHANGED tmp_file

\* line 434: open(tmp, "w") truncates the file
SaveOpen == WriteFile(SaveTarget, PartialFile)

OtherVarsSched == <<now, capVars, procVars, stoppers, encVars, diskVars, liveVars>>

\* values of the schedule form
ArmIntervals == {5}
ArmFps == {DEFAULT_FPS}

\* POST /schedule/arm, lines 2551-2558, up to the open of the temp file
ScheduleArm(start, dur, interval, fps, auto, name) ==
    /\ sched_lock = "none"
    /\ next_sid < MaxScheds
    /\ next_sid' = next_sid + 1
    /\ schedules' = Append(schedules,
                           [id |-> next_sid + 1, start_ts |-> start, end_ts |-> start + dur,
                            interval |-> interval, fps |-> fps, sess |-> name,
                            auto_encode |-> auto, has_id |-> FALSE])
    /\ sched_lock' = "dump"
    /\ SaveOpen
    /\ UNCHANGED OtherVarsSched

\* POST /schedule/cancel/<sid>, lines 2564-2566
ScheduleCancelId(sid) ==
    /\ sched_lock = "none"
    /\ schedules' = SchedPop(schedules, sid)
    /\ sched_lock' = "dump"
    /\ SaveOpen
    /\ UNCHANGED <<next_sid, OtherVarsSched>>

\* POST /schedule/cancel, lines 1113-1115: clears the whole table
ScheduleCancelCompat ==
    /\ sched_lock = "none"
    /\ schedules' = <<>>
    /\ sched_lock' = "dump"
    /\ SaveOpen
    /\ UNCHANGED <<next_sid, OtherVarsSched>>

\* POST /delete_past_schedules, lines 1021-1033
DeletePastSchedules ==
    /\ sched_lock = "none"
    /\ schedules' = SelectSeq(schedules, LAMBDA r : ~(r.end_ts < now))
    /\ sched_lock' = "dump"
    /\ SaveOpen
    /\ UNCHANGED <<next_sid, OtherVarsSched>>

\* POST /schedule/delete with an id of the table, lines 2608-2612: the handler
\* enters the critical section
ScheduleDeleteJson(sid) ==
    /\ sched_lock = "none"
    /\ SchedGet(schedules, sid) # NoSched
    /\ sched_lock' = "cancel_timers"
    /\ UNCHANGED <<schedules, next_sid, sched_file, tmp_file, OtherVarsSched>>

\* line 2614: _cancel_timers_for is not defined anywhere; the NameError leaves
\* the with-block, which releases the lock, before lines 2615-2616 are reached,
\* and Flask answers 500
ScheduleDeleteRaise ==
    /\ sched_lock = "cancel_timers"
    /\ sched_lock' = "none"
    /\ UNCHANGED <<schedules, next_sid, sched_file, tmp_file, OtherVarsSched>>

\* lines 435-436: json.dump, flush, fsync
SaveDump ==
    /\ sched_lock = "dump"
    /\ WriteFile(SaveTarget, Dump(schedules))
    /\ sched_lock' = "replace"
    /\ UNCHANGED <<schedules, next_sid, OtherVarsSched>>

\* line 437: os.replace(tmp, SCHED_FILE); an error is swallowed (lines 438-439);
\* the route then leaves the with-block and the lock is released
SaveReplace ==
    /\ sched_lock = "replace"
    /\ IF tmp_file.kind # "missing"
       THEN sched_file' = tmp_file /\ tmp_file' = MissingFile
       ELSE UNCHANGED <<sched_file, tmp_file>>
    /\ sched_lock' = "none"
    /\ UNCHANGED <<schedules, next_sid, OtherVarsSched>>

\* _scheduler_thread, lines 463-467: the active schedule has ended
SchedulerStop ==
    /\ sched_lock = "none"
    /\ current_session # NoName
    /\ active_schedule_id # 0
    /\ LET active == SchedGet(schedules, active_schedule_id) IN
       active # NoSched /\ active.end_ts <= now
    /\ Len(action_q) < MaxQueue
    /\ action_q' = Append(action_q, StopIntent)
    /\ UNCHANGED <<now, capVars, proc, stoppers, schedVars, encVars, diskVars, liveVars>>

\* a scheduler that fires every schedule whose start has been reached
StartReached(table, t) == {i \in 1..Len(table) : table[i].start_ts <= t}
\* a scheduler that looks only at the minute a schedule starts in
StartsNow(table, t) == {i \in 1..Len(table) : table[i].start_ts = t}
\* the schedules whose window contains t, by position in the table
InWindow(table, t) ==
    {i \in 1..Len(table) : table[i].start_ts <= t /\ t < table[i].end_ts}

\* _scheduler_thread, lines 470-481: idle, and a schedule's window contains now;
\* the loop takes the first in dict order and writes its id into the record
SchedulerStart ==
    /\ sched_lock = "none"
    /\ ~(current_session # NoName /\ active_schedule_id # 0)
    /\ IdleNow
    /\ InWindow(schedules, now) # {}
    /\ Len(action_q) < MaxQueue
    /\ LET i == CHOOSE i \in InWindow(schedules, now) :
                    \A j \in InWindow(schedules, now) : i <= j IN
       /\ schedules' = [schedules EXCEPT ![i].has_id = TRUE]
       /\ action_q' = Append(action_q, StartSched(schedules[i].id))
    /\ UNCHANGED <<now, capVars, proc, stoppers, next_sid, sched_lock, sched_file,
                   tmp_file, encVars, diskVars, liveVars>>

\* ------------------------------------------------------------------- clock
Tick ==
    /\ now < MaxTime
    /\ now' = now + 1
    /\ UNCHANGED <<capVars, procVars, stoppers, schedVars, encVars, diskVars, liveVars>>

\* ------------------------------------------------ values at module load
InitThreads == [t \in ThreadIds |-> FreeThread]
InitStoppers == [k \in StopperIds |-> IdleStopper]
IdleWorker == [pc |-> "get", sess |-> NoName, fps |-> 0, total |-> 0]
IdleEncHandler == [pc |-> "idle", sess |-> NoName]
InitEncHandlers == [h \in 1..NumEncHandlers |-> IdleEncHandler]
NoStills == {}

\* ------------------------------------------------------------ encode queue
Job(status, progress, reason) == [status |-> status, progress |-> progress, reason |-> reason]

\* _jobs[sess] = ...
SetJob(table, sess, job) == (sess :> job) @@ table

\* queue.Queue.task_done on a queue with `u` unfinished tasks: ValueError when
\* called more often than put
TaskDone(u) == IF u - 1 < 0 THEN [raised |-> TRUE, count |-> u]
               ELSE [raised |-> FALSE, count |-> u - 1]

EncHandlerIds == 1..NumEncHandlers
OtherVarsEnc == <<now, capVars, procVars, stoppers, schedVars, diskVars, liveVars>>

\* POST /encode/<sess>, lines 1091-1093: a job is queued or encoding
EncodeBusy(h, sess) ==
    /\ enc_handlers[h].pc = "idle"
    /\ AnyEncodingActive
    /\ jobs' = SetJob(jobs, sess, Job("error", 0, "busy"))
    /\ UNCHANGED <<encode_q, unfinished_tasks, worker, enc_handlers, OtherVarsEnc>>

\* POST /encode/<sess>, line 1091: no job is queued or encoding
EncodeCheck(h, sess) ==
    /\ enc_handlers[h].pc = "idle"
    /\ ~AnyEncodingActive
    /\ enc_handlers' = [enc_handlers EXCEPT ![h] = [pc |-> "checked", sess |-> sess]]
    /\ UNCHANGED <<jobs, encode_q, unfinished_tasks, worker, OtherVarsEnc>>

\* lines 1099-1100: the session directory does not exist, abort(404)
EncodeNotFound(h) ==
    /\ enc_handlers[h].pc = "checked"
    /\ enc_handlers[h].sess \notin DOMAIN frames
    /\ enc_handlers' = [enc_handlers EXCEPT ![h] = IdleEncHandler]
    /\ UNCHANGED <<jobs, encode_q, unfinished_tasks, worker, OtherVarsEnc>>

\* lines 1101-1103: not enough free space
EncodeLowDisk(h) ==
    /\ enc_handlers[h].pc = "checked"
    /\ enc_handlers[h].sess \in DOMAIN frames
    /\ ~free_ok
    /\ jobs' = SetJob(jobs, enc_handlers[h].sess, Job("error", 0, "low_disk"))
    /\ enc_handlers' = [enc_handlers EXCEPT ![h] = IdleEncHandler]
    /\ UNCHANGED <<encode_q, unfinished_tasks, worker, OtherVarsEnc>>

\* lines 1106-1107: the job is marked queued and put on _encode_q
EncodeQueue(h) ==
    /\ enc_handlers[h].pc = "checked"
    /\ enc_handlers[h].sess \in DOMAIN frames
    /\ free_ok
    /\ Len(encode_q) < MaxEncQueue
    /\ jobs' = SetJob(jobs, enc_handlers[h].sess, Job("queued", 0, ""))
    /\ encode_q' = Append(encode_q, [sess |-> enc_handlers[h].sess, fps |-> DEFAULT_FPS])
    /\ unfinished_tasks' = unfinished_tasks + 1
    /\ enc_handlers' = [enc_handlers EXCEPT ![h] = IdleEncHandler]
    /\ UNCHANGED <<worker, OtherVarsEnc>>

\* glob of *.jpg in the session directory (empty when there is no directory)
FrameCount(sess) == IF sess \in DOMAIN frames THEN frames[sess] ELSE 0

\* _encode_worker, lines 228-243: the next task is taken and has frames
WorkerGet ==
    /\ worker.pc = "get"
    /\ encode_q # <<>>
    /\ FrameCount(Head(encode_q).sess) > 0
    /\ encode_q' = Tail(encode_q)
    /\ jobs' = SetJob(jobs, Head(encode_q).sess, Job("encoding", 0, ""))
    /\ worker' = [worker EXCEPT !.pc = "encoding", !.sess = Head(encode_q).sess,
                                !.fps = Head(encode_q).fps,
                                !.total = FrameCount(Head(encode_q).sess)]
    /\ UNCHANGED <<unfinished_tasks, enc_handlers, OtherVarsEnc>>

\* the finally clause, line 286: task_done(); a ValueError raised there leaves
\* the while loop and ends the worker thread
WorkerAfterFinally(w, u) ==
    IF TaskDone(u).raised THEN [w EXCEPT !.pc = "dead"] ELSE [w EXCEPT !.pc = "get"]

\* lines 238-241 and 283-286: the task has no frames; the job is marked error,
\* task_done() is called, and `continue` runs the finally clause, which calls
\* task_done() again
WorkerGetNoFrames ==
    /\ worker.pc = "get"
    /\ encode_q # <<>>
    /\ FrameCount(Head(encode_q).sess) = 0
    /\ encode_q' = Tail(encode_q)
    /\ jobs' = SetJob(jobs, Head(encode_q).sess, Job("error", 0, ""))
    /\ LET first == TaskDone(unfinished_tasks) IN
       /\ worker' = WorkerAfterFinally([worker EXCEPT !.sess = Head(encode_q).sess,
                                                     !.fps = Head(encode_q).fps,
                                                     !.total = 0],
                                       first.count)
       /\ unfinished_tasks' = TaskDone(first.count).count
    /\ UNCHANGED <<enc_handlers, OtherVarsEnc>>

\* line 273: int((frame_num / max(1, total_frames)) * 99), line 274: clamped to 0..99
Progress(frame_num, total) ==
    LET prog == (frame_num * 99) \div (IF total > 1 THEN total ELSE 1) IN
    IF prog > 99 THEN 99 ELSE IF prog < 0 THEN 0 ELSE prog

\* lines 265-276: a "frame=" line of the encoder updates _jobs[sess]["progress"]
WorkerProgress(frame_num) ==
    /\ worker.pc = "encoding"
    /\ worker.sess \in DOMAIN jobs
    /\ jobs[worker.sess].progress # Progress(frame_num, worker.total)
    /\ jobs' = [jobs EXCEPT ![worker.sess].progress = Progress(frame_num, worker.total)]
    /\ UNCHANGED <<encode_q, unfinished_tasks, worker, enc_handlers, OtherVarsEnc>>

\* lines 278-286: the encoder exits; done on success, error otherwise
WorkerFinish(ok) ==
    /\ worker.pc = "encoding"
    /\ jobs' = SetJob(jobs, worker.sess,
                      IF ok THEN Job("done", 100, "") ELSE Job("error", 0, ""))
    /\ worker' = WorkerAfterFinally(worker, unfinished_tasks)
    /\ unfinished_tasks' = TaskDone(unfinished_tasks).count
    /\ UNCHANGED <<encode_q, enc_handlers, OtherVarsEnc>>

\* free space on the sessions volume crosses the 300 MB threshold
DiskChange ==
    /\ free_ok' = ~free_ok
    /\ UNCHANGED <<now, capVars, procVars, stoppers, schedVars, encVars, frames, boots, lcd,
                   liveVars>>

\* ------------------------------------------------------- live view and stills
\* _force_release_camera: pkill -TERM of rpicam-vid, libcamera-vid, rpicam-still
\* and libcamera-still, whoever started them
KillCameraPrograms(th) == [t \in ThreadIds |-> [th[t] EXCEPT !.cam = FALSE]]

OtherVarsLive == <<now, procVars, stoppers, schedVars, encVars, diskVars>>
CapVarsButThreads == <<capture_thread, current_session, active_schedule_id,
                       capture_stop_timer, capture_end_ts, stop_set, timers>>

\* GET /live.mjpg, lines 1237-1238: not idle, abort(503, "Busy")
LiveRefuse ==
    /\ live_handler = "idle"
    /\ ~IdleNow
    /\ live_handler' = "busy503"
    /\ UNCHANGED <<capVars, live_proc, last_live_spawn, stills, OtherVarsLive>>

\* GET /live.mjpg, line 1237: idle, so the request goes on to the shared process
LiveCheck ==
    /\ live_handler = "idle"
    /\ IdleNow
    /\ live_handler' = "checked"
    /\ UNCHANGED <<capVars, live_proc, last_live_spawn, stills, OtherVarsLive>>

\* lines 1244-1246: the shared process is running; the request streams from it
LiveAttach ==
    /\ live_handler = "checked"
    /\ live_proc = "running"
    /\ live_handler' = "streaming"
    /\ UNCHANGED <<capVars, live_proc, last_live_spawn, stills, OtherVarsLive>>

\* _can_spawn_live: false within a second of the last spawn; two requests in the
\* same clock unit may or may not be a second apart
CanSpawnLive(last, t) == IF t > last THEN {TRUE} ELSE {TRUE, FALSE}

\* lines 1246-1274: no process running: release the camera by force, then spawn
\* unless the rate limit answers 429
LiveSpawn(can) ==
    /\ live_handler = "checked"
    /\ live_proc # "running"
    /\ can \in CanSpawnLive(last_live_spawn, now)
    /\ threads' = KillCameraPrograms(threads)
    /\ stills' = NoStills
    /\ IF can
       THEN live_proc' = "running" /\ last_live_spawn' = now /\ live_handler' = "streaming"
       ELSE live_handler' = "limited429" /\ UNCHANGED <<live_proc, last_live_spawn>>
    /\ UNCHANGED <<CapVarsButThreads, OtherVarsLive>>

\* the error response is delivered, or the client of the stream disconnects
\* (lines 1316-1320: the shared process is left running)
LiveDone ==
    /\ live_handler \in {"busy503", "limited429", "streaming"}
    /\ live_handler' = "idle"
    /\ UNCHANGED <<capVars, live_proc, last_live_spawn, stills, OtherVarsLive>>

\* the live-view program exits on its own
LiveExit ==
    /\ live_proc = "running"
    /\ live_proc' = "exited"
    /\ UNCHANGED <<capVars, last_live_spawn, live_handler, stills, OtherVarsLive>>

\* /live_kill, lines 1382-1386
LiveKill ==
    /\ StopLiveProc
    /\ threads' = KillCameraPrograms(threads)
    /\ stills' = NoStills
    /\ UNCHANGED <<CapVarsButThreads, last_live_spawn, live_handler, OtherVarsLive>>

\* the routes that run the camera program once
GuardedStillRoutes == {"capture_still", "take_web_still"}

\* POST /capture_still and POST /take_web_still: refused unless idle
StillBegin(route) ==
    /\ route \in GuardedStillRoutes
    /\ route \notin stills
    /\ IdleNow
    /\ stills' = stills \cup {route}
    /\ UNCHANGED <<capVars, live_proc, last_live_spawn, live_handler, OtherVarsLive>>

\* GET /test_capture, lines 1184-1198: runs the camera program unconditionally
TestCaptureBegin ==
    /\ "test_capture" \notin stills
    /\ stills' = stills \cup {"test_capture"}
    /\ UNCHANGED <<capVars, live_proc, last_live_spawn, live_handler, OtherVarsLive>>

\* GET /live_diag, lines 1340-1365: probes the camera unless the preview runs
LiveDiagBegin ==
    /\ "live_diag" \notin stills
    /\ live_proc # "running"
    /\ stills' = stills \cup {"live_diag"}
    /\ UNCHANGED <<capVars, live_proc, last_live_spawn, live_handler, OtherVarsLive>>

\* subprocess.run returns
StillEnd(route) ==
    /\ route \in stills
    /\ stills' = stills \ {route}
    /\ UNCHANGED <<capVars, live_proc, last_live_spawn, live_handler, OtherVarsLive>>

\* ------------------------------------------------- session rename and delete
\* shutil.rmtree(p): the directory and its frames are gone
RemoveDir(dirs, sess) == [n \in (DOMAIN dirs) \ {sess} |-> dirs[n]]

\* POST /delete/<sess>, lines 1056-1063: refused for a session whose job is
\* queued or encoding and for the current session
DeleteRoute(sess) ==
    /\ ~(sess \in DOMAIN jobs /\ jobs[sess].status \in {"queued", "encoding"})
    /\ current_session # sess
    /\ sess \in DOMAIN frames
    /\ frames' = RemoveDir(frames, sess)
    /\ UNCHANGED <<now, capVars, procVars, stoppers, schedVars, encVars, free_ok, boots,
                   lcd, liveVars>>

\* POST /rename/<sess>, lines 1040-1048: refused for the current session and for
\* a new name that sanitizes to nothing or is taken
RenameRoute(sess, new_name) ==
    /\ current_session # sess
    /\ SafeName(new_name) # NoName
    /\ sess \in DOMAIN frames
    /\ SafeName(new_name) \notin DOMAIN frames
    /\ frames' = (SafeName(new_name) :> frames[sess]) @@ RemoveDir(frames, sess)
    /\ UNCHANGED <<now, capVars, procVars, stoppers, schedVars, encVars, free_ok, boots,
                   lcd, liveVars>>

\* ------------------------------------------------ the LCD's schedule delete
\* lcd_hat.py, _delete_schedule_backend(sched_id): POSTs id=<sched_id> to each
\* URL of SCHED_DEL_URLS in turn until one answers without an HTTP error
IdleLcd == [pc |-> "idle", id |-> 0]

\* lcd_hat.py line 389 with /schedule/delete: app.py lines 2608-2612, the
\* handler enters its critical section
LcdPostDelete(sid) ==
    /\ lcd.pc = "idle"
    /\ sched_lock = "none"
    /\ SchedGet(schedules, sid) # NoSched
    /\ sched_lock' = "cancel_timers"
    /\ lcd' = [pc |-> "delete", id |-> sid]
    /\ UNCHANGED <<now, capVars, procVars, stoppers, schedules, next_sid, sched_file,
                   tmp_file, encVars, frames, free_ok, boots, liveVars>>

\* app.py line 2614 raises NameError, Flask answers 500, urlopen raises
\* HTTPError and _http_post_form returns False: on to /schedule/remove
LcdDeleteFails ==
    /\ lcd.pc = "delete"
    /\ sched_lock = "cancel_timers"
    /\ sched_lock' = "none"
    /\ lcd' = [lcd EXCEPT !.pc = "remove"]
    /\ UNCHANGED <<now, capVars, procVars, stoppers, schedules, next_sid, sched_file,
                   tmp_file, encVars, frames, free_ok, boots, liveVars>>

\* app.py has no route /schedule/remove: 404, _http_post_form returns False: on
\* to /schedule/cancel
LcdRemoveFails ==
    /\ lcd.pc = "remove"
    /\ lcd' = [lcd EXCEPT !.pc = "cancel"]
    /\ UNCHANGED <<now, capVars, procVars, stoppers, schedVars, encVars, frames, free_ok,
                   boots, liveVars>>

\* lcd_hat.py line 389 with /schedule/cancel: app.py lines 1113-1115,
\* schedule_cancel_compat ignores the id and clears the table
LcdPostCancel ==
    /\ lcd.pc = "cancel"
    /\ sched_lock = "none"
    /\ schedules' = <<>>
    /\ sched_lock' = "dump"
    /\ SaveOpen
    /\ lcd' = [lcd EXCEPT !.pc = "saving"]
    /\ UNCHANGED <<now, capVars, procVars, stoppers, next_sid, encVars, frames, free_ok,
                   boots, liveVars>>

\* the save has completed and the redirect is answered: _http_post_form returns
\* True, and so does _delete_schedule_backend
LcdDone ==
    /\ lcd.pc = "saving"
    /\ sched_lock = "none"
    /\ lcd' = IdleLcd
    /\ UNCHANGED <<now, capVars, procVars, stoppers, schedVars, encVars, frames, free_ok,
                   boots, liveVars>>

\* ----------------------------------------------------------- process restart

\* The process is killed (power loss, service restart) and started again: the
\* module is loaded afresh, its child processes are gone, the files remain.
\* Lines 2620-2625 reload the schedule table; the NameError raised by
\* _arm_timers_all, which is not defined, is swallowed by the except clause.
Restart ==
    /\ boots < MaxBoots
    /\ boots' = boots + 1
    /\ capture_thread' = 0
    /\ current_session' = NoName
    /\ active_schedule_id' = 0
    /\ capture_stop_timer' = 0
    /\ capture_end_ts' = 0
    /\ stop_set' = FALSE
    /\ threads' = InitThreads
    /\ timers' = {}
    /\ action_q' = <<>>
    /\ proc' = IdleProc
    /\ stoppers' = InitStoppers
    /\ schedules' = LoadSchedState(sched_file, <<>>)
    /\ sched_lock' = "none"
    /\ jobs' = <<>>
    /\ encode_q' = <<>>
    /\ unfinished_tasks' = 0
    /\ worker' = IdleWorker
    /\ enc_handlers' = InitEncHandlers
    /\ live_proc' = "none"
    /\ last_live_spawn' = 0
    /\ live_handler' = "idle"
    /\ stills' = NoStills
    /\ UNCHANGED <<now, next_sid, sched_file, tmp_file, frames, free_ok, lcd>>

\* SCHED_FILE is deleted, truncated, or replaced by JSON that is not an object,
\* from outside the program (the cases of lines 443-449)
FileDamaged ==
    /\ sched_lock = "none"
    /\ sched_file.kind = "json"
    /\ sched_file' \in {MissingFile, PartialFile, ArrayFile(sched_file.data)}
    /\ UNCHANGED <<now, capVars, procVars, stoppers, schedules, next_sid, sched_lock,
                   tmp_file, encVars, diskVars, liveVars>>

\* ---------------------------------------------------------------------- Init
Init ==
    /\ now = 1
    /\ capture_thread = 0
    /\ current_session = NoName
    /\ active_schedule_id = 0
    /\ capture_stop_timer = 0
    /\ capture_end_ts = 0
    /\ stop_set = FALSE
    /\ threads = InitThreads
    /\ timers = {}
    /\ action_q = <<>>
    /\ proc = IdleProc
    /\ stoppers = InitStoppers
    /\ schedules = <<>>
    /\ next_sid = 0
    /\ sched_lock = "none"
    /\ sched_file = MissingFile
    /\ tmp_file = MissingFile
    /\ jobs = <<>>
    /\ encode_q = <<>>
    /\ unfinished_tasks = 0
    /\ worker = IdleWorker
    /\ enc_handlers = InitEncHandlers
    /\ frames = (SessA :> 1) @@ (SessB :> 0)
    /\ free_ok = TRUE
    /\ live_proc = "none"
    /\ last_live_spawn = 0
    /\ live_handler = "idle"
    /\ stills = NoStills
    /\ boots = 0
    /\ lcd = IdleLcd

\* ------------------------------------------------------------ specifications
CaptureThreadStep ==
    \E t \in ThreadIds :
        \/ CaptureSpawn(t)
        \/ CaptureWaitTimeout(t)
        \/ CapturePollRunning(t)
        \/ CaptureFinish(t)
        \/ CameraExit(t)

StopperStep ==
    \E k \in StopperIds : StopperCheck(k) \/ StopperJoin(k) \/ StopperReset(k)

ProcessorStartStep ==
    \/ ProcDropStart
    \/ ProcGetStartManual
    \/ ProcStartSession
    \/ ProcStartLaunch

ProcessorStopStep ==
    \/ ProcGetStop
    \/ ProcStopCheck
    \/ ProcStopJoin
    \/ ProcStopReset

\* manual starts and POST /stop only
NextManual ==
    \/ \E i \in FormIntervals : StartRoute(i, NoName, 0)
    \/ StopRoute
    \/ StopperStep
    \/ ProcessorStartStep
    \/ CaptureThreadStep

SpecManual == Init /\ [][NextManual]_vars

\* POST /encode for a session with frames, one without, and no such session
EncodeNames == {SessA, SessB, <<"c">>}

EncodeRoute ==
    \E h \in EncHandlerIds :
        \/ \E sess \in EncodeNames : EncodeBusy(h, sess) \/ EncodeCheck(h, sess)
        \/ EncodeNotFound(h)
        \/ EncodeLowDisk(h)
        \/ EncodeQueue(h)

EncodeWorkerStep ==
    \/ WorkerGet
    \/ WorkerGetNoFrames
    \/ \E f \in 1..MaxFrames : WorkerProgress(f)
    \/ \E ok \in BOOLEAN : WorkerFinish(ok)

\* POST /encode requests, the encode worker and the disk filling up
NextEncode ==
    \/ EncodeRoute
    \/ EncodeWorkerStep
    \/ DiskChange

SpecEncode == Init /\ [][NextEncode]_vars

LiveRoute ==
    \/ LiveRefuse
    \/ LiveCheck
    \/ LiveAttach
    \/ \E can \in BOOLEAN : LiveSpawn(can)
    \/ LiveDone
    \/ LiveExit
    \/ LiveKill

StillRoute ==
    \/ \E route \in GuardedStillRoutes : StillBegin(route)
    \/ TestCaptureBegin
    \/ LiveDiagBegin
    \/ \E route \in stills : StillEnd(route)

\* one browser: a form is posted once the previous request has been served
Quiet ==
    /\ action_q = <<>>
    /\ proc.pc = "get"
    /\ \A k \in StopperIds : stoppers[k].pc = "idle"
OneStart == Quiet /\ StartRoute(CAPTURE_INTERVAL_SEC, NoName, 0)
OneStop == Quiet /\ StopRoute

\* capture sessions, the live view and the one-shot camera routes
NextCamera ==
    \/ OneStart
    \/ OneStop
    \/ StopperStep
    \/ ProcessorStartStep
    \/ CaptureThreadStep
    \/ EncodeCheck(1, SessA)
    \/ EncodeQueue(1)
    \/ WorkerGet
    \/ WorkerFinish(TRUE)
    \/ LiveRoute
    \/ StillRoute

SpecCamera == Init /\ [][NextCamera]_vars

\* capture sessions, one encode request at a time, and the live view
NextLive ==
    \/ OneStart
    \/ OneStop
    \/ StopperStep
    \/ ProcessorStartStep
    \/ CaptureThreadStep
    \/ EncodeBusy(1, SessA)
    \/ EncodeCheck(1, SessA)
    \/ EncodeQueue(1)
    \/ WorkerGet
    \/ WorkerFinish(TRUE)
    \/ LiveRoute

SpecLive == Init /\ [][NextLive]_vars

\* values of the schedule form: start minute, length in minutes, session name
ArmStarts == 1..(MaxTime - 1)
ArmDurations == {1, 2}
ArmNames == {NoName, SessA}

ScheduleRoute ==
    \/ \E start \in ArmStarts, dur \in ArmDurations, interval \in ArmIntervals,
          fps \in ArmFps, name \in ArmNames :
            start + dur <= MaxTime /\ ScheduleArm(start, dur, interval, fps, FALSE, name)
    \/ \E sid \in 1..MaxScheds : ScheduleCancelId(sid)
    \/ ScheduleCancelCompat
    \/ DeletePastSchedules

SaveStep == SaveDump \/ SaveReplace

\* the schedule routes, with the process killed and started again at any step
NextPersist ==
    \/ ScheduleRoute
    \/ SaveStep
    \/ Restart
    \/ Tick

SpecPersist == Init /\ [][NextPersist]_vars

\* POST /schedule/arm with one set of capture parameters
ArmOne ==
    \E start \in ArmStarts, dur \in ArmDurations, interval \in ArmIntervals,
       fps \in ArmFps, name \in ArmNames :
        start + dur <= MaxTime /\ ScheduleArm(start, dur, interval, fps, FALSE, name)

ProcessorSchedStep ==
    \/ ProcDropStart
    \/ ProcGetStartSched
    \/ ProcStartSession
    \/ ProcStartLaunch
    \/ ProcessorStopStep

\* The scheduler wakes every 5 s and the processor drains its queue at once,
\* while a clock unit is a minute: the minute ends when both have had their turn.
TickSettled ==
    /\ sched_lock = "none"
    /\ action_q = <<>>
    /\ proc.pc = "get"
    /\ ~ENABLED SchedulerStart
    /\ ~ENABLED SchedulerStop
    /\ Tick

\* schedules armed, saved, fired by the scheduler; the process restarts
NextRestart ==
    \/ ArmOne
    \/ SaveStep
    \/ Restart
    \/ SchedulerStart
    \/ SchedulerStop
    \/ ProcessorSchedStep
    \/ \E t \in ThreadIds : CaptureSpawn(t) \/ CaptureFinish(t)
    \/ TickSettled

\* every thread of the program keeps running
FairRestart ==
    /\ WF_vars(SaveStep)
    /\ WF_vars(SchedulerStart)
    /\ WF_vars(SchedulerStop)
    /\ WF_vars(ProcessorSchedStep)
    /\ \A t \in ThreadIds : WF_vars(CaptureSpawn(t)) /\ WF_vars(CaptureFinish(t))

SpecRestart == Init /\ [][NextRestart]_vars /\ FairRestart

\* schedules armed and cancelled while the scheduler fires them
ArmNamed ==
    \E start \in ArmStarts :
        ScheduleArm(start, 1, CAPTURE_INTERVAL_SEC, DEFAULT_FPS, FALSE, SessA)

NextCancel ==
    \/ ArmNamed
    \/ \E sid \in 1..MaxScheds : ScheduleCancelId(sid)
    \/ SaveStep
    \/ SchedulerStart
    \/ SchedulerStop
    \/ ProcessorSchedStep
    \/ \E t \in ThreadIds : CaptureSpawn(t) \/ CaptureFinish(t)
    \/ TickSettled

\* every thread keeps running and time passes
FairCancel == FairRestart /\ WF_vars(TickSettled)

SpecCancel == Init /\ [][NextCancel]_vars /\ FairCancel

\* a frame rate of FPS_CHOICES other than the default
SchedFps == 30

ArmAuto ==
    \E start \in ArmStarts, auto \in BOOLEAN, name \in {SessA, SessB} :
        ScheduleArm(start, 1, CAPTURE_INTERVAL_SEC, SchedFps, auto, name)

\* schedules with and without auto_encode, run to their end by the scheduler
NextAuto ==
    \/ ArmAuto
    \/ SaveStep
    \/ SchedulerStart
    \/ SchedulerStop
    \/ ProcessorSchedStep
    \/ ProcStopEncode
    \/ \E t \in ThreadIds : CaptureSpawn(t) \/ CaptureFinish(t)
    \/ TickSettled

FairAuto == FairCancel /\ WF_vars(ProcStopEncode)

SpecAuto == Init /\ [][NextAuto]_vars /\ FairAuto

\* scheduled sessions with auto_encode and POST /encode while the free space
\* on the sessions volume comes and goes
NextDisk ==
    \/ NextAuto
    \/ DiskChange
    \/ EncodeCheck(1, SessA)
    \/ EncodeLowDisk(1)
    \/ EncodeQueue(1)

SpecDisk == Init /\ [][NextDisk]_vars

\* a start with a duration, one request at a time, and its timer
NextTimer ==
    \/ Quiet /\ StartRoute(CAPTURE_INTERVAL_SEC, NoName, 1)
    \/ ProcGetStartManual
    \/ ProcStartSession
    \/ ProcStartLaunch
    \/ \E d \in 1..MaxTime : TimerFire(d)
    \/ StopperStep
    \/ CaptureThreadStep
    \/ Tick

FairTimer ==
    /\ WF_vars(ProcGetStartManual \/ ProcStartSession \/ ProcStartLaunch)
    /\ WF_vars(\E d \in 1..MaxTime : TimerFire(d))
    /\ WF_vars(StopperStep)
    /\ WF_vars(CaptureThreadStep)
    /\ WF_vars(Tick)

SpecTimer == Init /\ [][NextTimer]_vars /\ FairTimer

\* restarts over a schedule file that may have been damaged
NextBoot ==
    \/ NextRestart
    \/ FileDamaged

SpecBoot == Init /\ [][NextBoot]_vars

\* the schedule routes, POST /schedule/delete among them
NextDelete ==
    \/ NextPersist
    \/ \E sid \in 1..MaxScheds : ScheduleDeleteJson(sid)
    \/ ScheduleDeleteRaise

SpecDelete == Init /\ [][NextDelete]_vars

\* session names as typed into the forms: none, one of unsafe characters only,
\* and a mixed one
FormNames == {NoName, <<"/">>, <<"a", "/">>}

\* manual starts and schedules with the names of the forms
NextNames ==
    \/ \E name \in FormNames : Quiet /\ StartRoute(CAPTURE_INTERVAL_SEC, name, 0)
    \/ \E start \in ArmStarts, name \in FormNames :
          ScheduleArm(start, 1, CAPTURE_INTERVAL_SEC, DEFAULT_FPS, FALSE, name)
    \/ SaveStep
    \/ SchedulerStart
    \/ SchedulerStop
    \/ ProcGetStartManual
    \/ ProcessorSchedStep
    \/ \E t \in ThreadIds : CaptureSpawn(t) \/ CaptureFinish(t)
    \/ TickSettled

SpecNames == Init /\ [][NextNames]_vars

\* manual starts and POST /stop while the volume fills up
NextCrash ==
    \/ StartRoute(CAPTURE_INTERVAL_SEC, NoName, 0)
    \/ DiskChange
    \/ ProcessorStartStep
    \/ ProcStartSessionFails
    \/ CaptureThreadStep
    \/ StopRoute
    \/ StopperStep

SpecCrash == Init /\ [][NextCrash]_vars

\* scheduled sessions with auto_encode, POST /encode, the encode worker, and
\* sessions renamed and deleted from the index page
NextRemove ==
    \/ \E start \in ArmStarts, auto \in BOOLEAN :
          ScheduleArm(start, 1, CAPTURE_INTERVAL_SEC, SchedFps, auto, SessA)
    \/ SaveStep
    \/ SchedulerStart
    \/ SchedulerStop
    \/ ProcessorSchedStep
    \/ ProcStopEncode
    \/ \E t \in ThreadIds : CaptureSpawn(t) \/ CaptureFinish(t)
    \/ TickSettled
    \/ EncodeCheck(1, SessA)
    \/ EncodeQueue(1)
    \/ WorkerGet
    \/ WorkerGetNoFrames
    \/ WorkerFinish(TRUE)
    \/ \E sess \in {SessA, SessB} : DeleteRoute(sess)
    \/ RenameRoute(SessA, SessB)

SpecRemove == Init /\ [][NextRemove]_vars

\* sessions started by the scheduler and stopped from the browser
NextHalt ==
    \/ ArmNamed
    \/ SaveStep
    \/ SchedulerStart
    \/ SchedulerStop
    \/ ProcessorSchedStep
    \/ \E t \in ThreadIds : CaptureSpawn(t) \/ CaptureFinish(t)
    \/ OneStop
    \/ StopperStep
    \/ TickSettled

SpecHalt == Init /\ [][NextHalt]_vars

\* sessions started by the scheduler and from the browser, stopped by the
\* scheduler at the end of the schedule
NextMixed ==
    \/ ArmNamed
    \/ SaveStep
    \/ SchedulerStart
    \/ SchedulerStop
    \/ StartRoute(CAPTURE_INTERVAL_SEC, NoName, 0)
    \/ ProcGetStartManual
    \/ ProcessorSchedStep
    \/ \E t \in ThreadIds : CaptureSpawn(t) \/ CaptureFinish(t)
    \/ TickSettled

SpecMixed == Init /\ [][NextMixed]_vars

\* manual starts and POST /stop, with every thread of the program running on:
\* the processor, the stop_timelapse calls, and each capture loop
FairManual ==
    /\ WF_vars(ProcessorStartStep)
    /\ WF_vars(StopperStep)
    /\ \A t \in ThreadIds :
          WF_vars(CaptureSpawn(t) \/ CaptureWaitTimeout(t) \/ CapturePollRunning(t)
                    \/ CaptureFinish(t))

SpecManualFair == Init /\ [][NextManual]_vars /\ FairManual

\* schedules armed from the browser and deleted one at a time from the LCD
NextLcd ==
    \/ ArmOne
    \/ SaveStep
    \/ \E sid \in 1..MaxScheds : LcdPostDelete(sid)
    \/ LcdDeleteFails
    \/ LcdRemoveFails
    \/ LcdPostCancel
    \/ LcdDone

SpecLcd == Init /\ [][NextLcd]_vars

\* ------------------------------------------------------------------- claims

\* C1: under every interleaving of start requests, stop requests and the
\* processor draining its queue, there are never two capture threads alive at
\* the same time.
C1_AtMostOneCaptureThread == Cardinality(AliveThreads) <= 1

\* C11: a session started under a schedule is stopped once that schedule's
\* end has passed, also when the schedule record was cancelled or cleared
\* while the session was running.
C11_ScheduledSessionStops ==
    \A sid \in 1..MaxScheds, e \in 1..MaxTime :
        (/\ active_schedule_id = sid
         /\ IsAlive(capture_thread)
         /\ SchedGet(schedules, sid).end_ts = e)
        ~> (now >= e /\ ~(active_schedule_id = sid /\ IsAlive(capture_thread)))

C13_NoStartOnLowDisk ==
    [][~free_ok =>
         /\ current_session' \in {current_session, NoName}
         /\ \A t \in ThreadIds : threads'[t].pc = "spawn" => threads[t].pc = "spawn"]_vars

\* C14: no encode job is put on the encode queue while free storage is below
\* the threshold, on the manual path and on the auto-encode path.
C14_NoEncodeOnLowDisk ==
    [][Len(encode_q') > Len(encode_q) => free_ok]_vars

\* C15: stop is idempotent, and once a stop that ran concurrently with the
\* draining of a start has returned and the processor is at rest, no capture
\* thread is running unsignalled while the controller state says that no
\* session is active.
C15_StopLeavesNoThread ==
    (/\ \A k \in StopperIds : stoppers[k].pc = "idle"
     /\ proc.pc = "get"
     /\ action_q = <<>>
     /\ capture_thread = 0
     /\ current_session = NoName)
    => \A t \in ThreadIds : IsAlive(t) => threads[t].sig

\* C16: a start intent drained while the system is not idle is discarded with
\* no effect: the current session, the capture threads, the active schedule
\* id, the duration timer and a running live-view process stay as they were.
C16_DroppedStartHasNoEffect ==
    [][(/\ proc.pc = "get"
        /\ action_q # <<>>
        /\ Head(action_q).action = "start"
        /\ ~IdleNow
        /\ action_q' = Tail(action_q))
       => UNCHANGED <<current_session, capture_thread, threads, active_schedule_id,
                      capture_stop_timer, capture_end_ts, timers, stop_set,
                      live_proc, proc>>]_vars

\* a start intent is at the head of the queue while an encode job is in flight
\* and the live-view process is running: the processor drops it
C16_StartDrainedWhileBusy ==
    /\ ENABLED ProcDropStart
    /\ live_proc = "running"
    /\ AnyEncodingActive

\* C17: the processor applies the intents in the order they were put on the
\* queue, one at a time: it takes the oldest intent only when it has finished
\* the one before, and every other change of the queue adds at its end.
C17_IntentsInOrder ==
    [][/\ action_q' # action_q =>
            \/ /\ Len(action_q') = Len(action_q) + 1
               /\ SubSeq(action_q', 1, Len(action_q)) = action_q
            \/ /\ action_q # <<>>
               /\ action_q' = Tail(action_q)
               /\ proc.pc = "get"
       /\ (proc.pc = "get" /\ proc'.pc # "get") =>
            /\ action_q # <<>>
            /\ action_q' = Tail(action_q)
            /\ proc'.intent = Head(action_q)
       /\ (proc.pc # "get" /\ proc' # proc) => Len(action_q') >= Len(action_q)]_vars

\* the processor is in the middle of one intent while an intent of the other
\* kind waits behind it
C17_IntentWaitsBehindAnother ==
    /\ proc.pc # "get"
    /\ action_q # <<>>
    /\ Head(action_q).action # proc.intent.action

\* C18: while the worker is encoding a job, the job's table entry is changed
\* by the worker only: a step that leaves the worker encoding changes at most
\* the progress, and no request changes the status.
C18_InFlightEntryOnlyByWorker ==
    [][\A s \in DOMAIN jobs :
          (worker.pc = "encoding" /\ worker.sess = s /\ jobs'[s] # jobs[s])
          => \/ worker'.pc # "encoding"
             \/ /\ jobs'[s].status = "encoding"
                /\ jobs'[s].reason = jobs[s].reason
                /\ \E f \in 1..MaxFrames : jobs'[s].progress = Progress(f, worker.total)]_vars

\* C19: the live-view process runs only in states where idle holds: it is torn
\* down when a capture starts or an encode job becomes queued or encoding.
C19_LiveOnlyWhenIdle ==
    live_proc = "running" => IdleNow

\* C20: no live-view operation (GET /live.mjpg spawning the shared process,
\* /live_kill) ends the camera process of a capture session.
C20_LiveNeverKillsCapture ==
    [][(LiveKill \/ \E can \in BOOLEAN : LiveSpawn(can))
       => \A t \in ThreadIds : threads[t].cam => threads'[t].cam]_vars

\* C2: the capture loops' camera processes, the shared live-view process and the
\* one-shot still invocations never run at the same time, in any pairing.
C2_CameraExclusive ==
    Cardinality(CaptureProcs) + (IF live_proc = "running" THEN 1 ELSE 0)
        + Cardinality(stills) <= 1

\* C21: a one-shot still route (capture_still, take_web_still, test_capture)
\* invokes the camera program only when the system is idle.
C21_StillsOnlyWhenIdle ==
    [][\A route \in GuardedStillRoutes \cup {"test_capture"} :
          (route \notin stills /\ route \in stills') => IdleNow]_vars

\* C3: while some job is queued or encoding, a POST /encode puts nothing on the
\* encode queue, also when two such requests are handled at once.
C3_BusyPutsNothing ==
    [][AnyEncodingActive => Len(encode_q') <= Len(encode_q)]_vars

\* C4: at most one entry of _jobs has status queued or encoding.
C4_AtMostOneInFlight ==
    Cardinality({s \in DOMAIN jobs : jobs[s].status \in {"queued", "encoding"}}) <= 1

C7_SaveIsAtomic ==
    [][/\ sched_file'.kind # "partial"
       /\ sched_file' \in {sched_file, Dump(schedules)}
       /\ (sched_lock' = "none" => LoadSchedState(sched_file', <<>>) = schedules')]_vars

\* the process was killed while the temp file was being written, after an
\* earlier save had completed: the reload has returned the previous table
C7_KilledMidSave ==
    /\ boots > 0
    /\ tmp_file.kind = "partial"
    /\ sched_file.kind = "json"
    /\ Len(schedules) > 0
    /\ schedules = sched_file.data

\* C8: every change of the capture controller's state (_capture_thread,
\* _current_session) is a step of the action processor; no HTTP handler and no
\* timer thread starts or stops a capture.
C8_OnlyProcessorTransitions ==
    [][(capture_thread' # capture_thread \/ current_session' # current_session)
          => proc' # proc]_vars

\* C9: _idle_now() is true exactly when no capture thread is alive, no job waits
\* in _encode_q and the encode worker is not processing one.
C9_IdleExact ==
    IdleNow <=> (AliveThreads = {} /\ encode_q = <<>> /\ worker.pc # "encoding")

\* C10: the encode worker stays alive whatever the outcome of earlier jobs.
C10_WorkerStaysAlive == worker.pc # "dead"

\* C22: when the timer armed by a start with a duration fires, a stop intent
\* is put on the action queue, and the session is eventually stopped.
C22_TimerStopsThroughQueue ==
    /\ [][(stoppers["timer"].pc = "idle" /\ stoppers'["timer"].pc # "idle")
          => action_q' = Append(action_q, StopIntent)]_vars
    /\ \A d \in 1..MaxTime :
          (capture_stop_timer = d /\ IsAlive(capture_thread))
          ~> ~IsAlive(capture_thread)

C24_BadFileMeansNoSchedule ==
    [][(boots' = boots + 1 /\ sched_file.kind # "json")
       => /\ schedules' = <<>>
          /\ sched_lock' = "none"
          /\ proc' = IdleProc
          /\ sched_file' = sched_file]_vars

\* the process has restarted over a file that holds a JSON list, after a
\* schedule had been armed and saved
C24_RestartedOverBadFile ==
    /\ boots = 1
    /\ next_sid > 0
    /\ sched_file.kind = "array"
    /\ sched_file.data # <<>>
    /\ schedules = <<>>

C26_DeleteRemovesSchedule ==
    [][(sched_lock = "cancel_timers" /\ sched_lock' # "cancel_timers" /\ boots' = boots)
       => /\ sched_lock' = "dump"
          /\ \E sid \in 1..MaxScheds :
                /\ SchedGet(schedules, sid) # NoSched
                /\ schedules' = SchedPop(schedules, sid)]_vars

\* C27: the name the processor gives a session it starts is not empty and
\* holds only alphanumerics, '-' and '_', for a manual start and for a start
\* from a schedule, whatever name was stored.
C27_SessionNameSafe ==
    [][(proc.pc = "start_session" /\ proc'.pc = "start_launch")
       => /\ current_session' # NoName
          /\ \A i \in 1..Len(current_session') : IsSafeChar(current_session'[i])]_vars

\* C28: a failure while the processor handles an intent is not a crash: the
\* processor thread is alive in every state, and whenever it is not in the
\* middle of a start a session name is set only with a capture thread tracked.
C28_ProcessorSurvivesFailure ==
    /\ proc.pc # "dead"
    /\ (proc.pc \notin {"start_session", "start_launch"} /\ current_session # NoName)
       => capture_thread # 0

\* C30: when the live-view process exits by itself in the clock unit it was
\* spawned in, the request streaming from it does not give up before a
\* respawn: its next step starts the process again.
C30_RespawnBeforeGivingUp ==
    [][(/\ live_handler = "streaming"
        /\ live_proc = "exited"
        /\ last_live_spawn = now
        /\ live_handler' # "streaming")
       => live_proc' = "running"]_vars

\* C31: for a job the worker processes, status encoding carries a progress in
\* 0..99, status done carries progress 100, status error carries progress 0,
\* and progress 100 appears with status done only.
C31_ProgressMatchesStatus ==
    \A s \in DOMAIN jobs :
        /\ jobs[s].status = "encoding" => jobs[s].progress \in 0..99
        /\ jobs[s].status = "done" => jobs[s].progress = 100
        /\ jobs[s].status = "error" => jobs[s].progress = 0
        /\ jobs[s].progress = 100 => jobs[s].status = "done"

\* C32: when the processor drains a start intent of the scheduler while idle,
\* the schedule the intent names is in the table, the capture is prepared with
\* that schedule's interval and session name, and the schedule is recorded as
\* the active one; no start runs with the defaults under the id of a schedule
\* that was cancelled after the intent was pushed.
C32_ScheduledStartUsesSchedule ==
    [][(/\ proc.pc = "get"
        /\ proc'.pc = "start_session"
        /\ proc'.intent.sched # 0)
       => LET sched == SchedGet(schedules, proc'.intent.sched) IN
          /\ sched # NoSched
          /\ proc'.interval = sched.interval
          /\ proc'.sess_name = sched.sess
          /\ active_schedule_id' = sched.id]_vars

\* the sessions the encode pipeline holds: a task waiting in _encode_q or the
\* one the worker is encoding
EncodePending == {encode_q[i].sess : i \in 1..Len(encode_q)}
                    \cup (IF worker.pc = "encoding" THEN {worker.sess} ELSE {})

\* C33: no request removes the directory of a session that has an encode job
\* waiting in the encode queue or being encoded, whether the job was queued by
\* POST /encode or by auto-encode, and none removes or renames the directory of
\* the active capture session.
C33_BusySessionKept ==
    [][\A s \in DOMAIN frames :
          /\ s \in EncodePending => DOMAIN frames' # (DOMAIN frames) \ {s}
          /\ s = current_session => s \in DOMAIN frames']_vars

\* C34: once POST /stop has stopped a session that ran under a schedule (no
\* session is current, no capture thread is left, the processor is at rest,
\* and the schedule is still the one recorded as active), the scheduler pushes
\* no start intent for that schedule again.
C34_StoppedScheduleStaysIdle ==
    [][(/\ active_schedule_id # 0
        /\ current_session = NoName
        /\ AliveThreads = {}
        /\ proc.pc = "get"
        /\ Len(action_q') = Len(action_q) + 1)
       => ~(/\ action_q'[Len(action_q')].action = "start"
            /\ action_q'[Len(action_q')].sched = active_schedule_id)]_vars

\* C35: whenever the processor is at rest and no stop_timelapse call is in
\* progress, a session is reported (_current_session is set) if and only if a
\* capture thread is alive.
C35_SessionIffCapturing ==
    (proc.pc = "get" /\ \A k \in StopperIds : stoppers[k].pc = "idle")
    => (current_session # NoName <=> AliveThreads # {})

\* C36: a duration timer that fires while a capture thread is tracked is the
\* timer armed for that session (the one held in _capture_stop_timer): the
\* timer of a session that has ended never stops a later session.
C36_TimerStopsOwnSession ==
    [][\A d \in 1..(MaxTime + 1) :
          (/\ stoppers["timer"].pc = "idle"
           /\ stoppers'["timer"].pc = "check"
           /\ d \in timers
           /\ d \notin timers'
           /\ IsAlive(capture_thread))
          => d = capture_stop_timer]_vars

\* C37: a stop intent (only the scheduler puts them on the queue) drained
\* while a capture thread is alive stops a session that runs under a schedule
\* whose end has passed; it never ends a session started by hand.
C37_StopIntentStopsOwnSession ==
    [][(/\ proc.pc = "get"
        /\ proc'.pc = "stop_check"
        /\ IsAlive(capture_thread))
       => /\ active_schedule_id # 0
          /\ SchedGet(schedules, active_schedule_id) # NoSched
          /\ SchedGet(schedules, active_schedule_id).end_ts <= now]_vars

\* C38: a capture thread that has finished has left no camera process running,
\* and a capture loop that is alive when the stop Event is set always ends,
\* also when stop_timelapse binds a fresh Event to _stop_event afterwards.
C38_LoopEndsAfterStop ==
    /\ [](\A t \in ThreadIds : threads[t].pc \in {"dead", "free"} => ~threads[t].cam)
    /\ \A t \in ThreadIds : (IsAlive(t) /\ stop_set) ~> ~IsAlive(t)

\* C39: no step of the LCD's delete of one schedule removes or changes any
\* other schedule of the table.
C39_LcdDeleteKeepsOthers ==
    [][lcd' # lcd =>
          LET sid == IF lcd.pc = "idle" THEN lcd'.id ELSE lcd.id IN
          \A i \in 1..Len(schedules) :
              schedules[i].id # sid
              => SchedGet(schedules', schedules[i].id) = schedules[i]]_vars

====
